---- MODULE Spec2Model ----
(***************************************************************************)
(* Model of scripts/inputs/create_test_batch.py: one run of main(), which  *)
(* turns the metadata of a GATKSVPipelineBatch run into a "values" JSON    *)
(* document, and of the pure helper replace_output_dir.                    *)
(*                                                                         *)
(* Strings.  A Python str is modelled as a sequence of atoms.  The atoms   *)
(* of prefixes, paths and other JSON string values are their single        *)
(* characters ("g","s",":","/",...).  The identifiers that make up JSON    *)
(* keys ("GATKSVPipelineBatch", "samples", ...) and the literal suffixes   *)
(* "_list" and ".txt" are kept whole as one atom each, with "." an atom of *)
(* its own: the program only compares keys, removes the workflow prefix,   *)
(* splits them at dots and appends suffixes to them.  A key that ends in   *)
(* "_list" is always written with "_list" as an atom of its own, so that   *)
(* equal strings are equal sequences.                                      *)
(***************************************************************************)
EXTENDS Integers, Sequences, FiniteSets, TLC

(***************************************************************************)
(* Python str operations                                                   *)
(***************************************************************************)

\* s[i:] for a 0-based offset i
Drop(s, i) == SubSeq(s, i + 1, Len(s))

\* s.startswith(p)
StartsWith(s, p) == Len(p) <= Len(s) /\ SubSeq(s, 1, Len(p)) = p

\* s.endswith(p)
EndsWith(s, p) == Len(p) <= Len(s) /\ SubSeq(s, Len(s) - Len(p) + 1, Len(s)) = p

\* p in s
Contains(s, p) == \E i \in 0 .. (Len(s) - Len(p)) : StartsWith(Drop(s, i), p)

\* s.replace(old, new) for a non-empty old: the leftmost occurrence is
\* replaced and the scan resumes after it (occurrences do not overlap).
RECURSIVE StrReplace(_, _, _)
StrReplace(s, old, new) ==
    IF s = <<>> THEN <<>>
    ELSE IF StartsWith(s, old) THEN new \o StrReplace(Drop(s, Len(old)), old, new)
    ELSE <<Head(s)>> \o StrReplace(Tail(s), old, new)

\* s.lstrip(c)
RECURSIVE LStrip(_, _)
LStrip(s, c) == IF s # <<>> /\ Head(s) = c THEN LStrip(Tail(s), c) ELSE s

\* sep.join(parts)
RECURSIVE StrJoin(_, _)
StrJoin(sep, parts) ==
    IF parts = <<>> THEN <<>>
    ELSE IF Len(parts) = 1 THEN parts[1]
    ELSE parts[1] \o sep \o StrJoin(sep, Tail(parts))

\* s.split('.')[-1]: what follows the last "." of s (all of s without one)
RECURSIVE LastSegment(_)
LastSegment(s) ==
    IF \E i \in 1 .. Len(s) : s[i] = "." THEN LastSegment(Tail(s)) ELSE s

\* os.path.join(a, b) on POSIX
PathJoin(a, b) ==
    IF StartsWith(b, <<"/">>) THEN b
    ELSE IF a = <<>> \/ EndsWith(a, <<"/">>) THEN a \o b
    ELSE a \o <<"/">> \o b


(***************************************************************************)
(* JSON values and optional arguments                                      *)
(***************************************************************************)

\* A JSON value: t is its type; s holds a string's atoms, l a list's
\* elements (each a string), n a number.  The unused fields are empty.
JNull    == [t |-> "null", s |-> <<>>, l |-> <<>>, n |-> 0]
JStr(s)  == [t |-> "str",  s |-> s,    l |-> <<>>, n |-> 0]
JList(l) == [t |-> "list", s |-> <<>>, l |-> l,    n |-> 0]
JNum(n)  == [t |-> "num",  s |-> <<>>, l |-> <<>>, n |-> n]

\* An optional command-line argument or local: Python's None, or a str
None    == [some |-> FALSE, s |-> <<>>]
Some(s) == [some |-> TRUE,  s |-> s]

\* A dict with no entries
EmptyDict == [k \in {} |-> JNull]

\* d with d[k] = v set (a new key or an overwrite)
DictSet(d, k, v) == [x \in DOMAIN d \cup {k} |-> IF x = k THEN v ELSE d[x]]

(***************************************************************************)
(* Program constants                                                       *)
(***************************************************************************)

INPUT_KEYS ==
    { <<"name">>, <<"samples">>, <<"bam_or_cram_files">>,
      <<"requester_pays_crams">>, <<"ped_file">>,
      <<"contig_ploidy_model_tar">>, <<"gcnv_model_tars">>,
      <<"qc_definitions">>, <<"outlier_cutoff_table">> }

FILE_LIST_KEYS ==
    { <<"PE_files">>, <<"SR_files">>, <<"samples">>, <<"std_manta_vcfs">>,
      <<"std_wham_vcfs">>, <<"std_melt_vcfs">>, <<"std_scramble_vcfs">>,
      <<"gcnv_model_tars">> }

\* "GATKSVPipelineBatch."
WorkflowPrefix == <<"GATKSVPipelineBatch", ".">>

\* "gs://"
GS == <<"g", "s", ":", "/", "/">>

\* "\n"
NL == <<"\n">>

\* "_list" and ".txt"
ListKeySuffix == <<"_list">>
list_suffix == <<".txt">>

(***************************************************************************)
(* replace_output_dir and replace_output_dir_maybe_list.  A call either    *)
(* returns a value or raises: [ok |-> TRUE, v |-> value] or                *)
(* [ok |-> FALSE, err |-> exception].                                      *)
(***************************************************************************)

Return(v) == [ok |-> TRUE,  v |-> v,     err |-> ""]
Raise(e)  == [ok |-> FALSE, v |-> JNull, err |-> e]

MismatchError == "ValueError: Execution bucket not found in output"
TypeError == "TypeError"

\* replace_output_dir without its check that the prefix occurs
replace_output_dir_Unchecked(value, execution_bucket, outputs_dir) ==
    IF value.t = "str"
    THEN Return(JStr(StrReplace(value.s, execution_bucket, outputs_dir)))
    ELSE Raise(TypeError)

\* replace_output_dir(value, execution_bucket, outputs_dir) on a string, a
\* number or null.  `execution_bucket not in value` raises TypeError on a
\* value that is no container (a number, None).
replace_output_dir(value, execution_bucket, outputs_dir) ==
    IF value.t = "str" THEN
        IF ~Contains(value.s, execution_bucket)
        THEN Raise(MismatchError)
        ELSE Return(JStr(StrReplace(value.s, execution_bucket, outputs_dir)))
    ELSE Raise(TypeError)

\* replace_output_dir_maybe_list(value, execution_bucket, outputs_dir):
\* execution_bucket and outputs_dir are optional here.  The list
\* comprehension raises what its first failing element raises.
replace_output_dir_maybe_list(value, execution_bucket, outputs_dir) ==
    IF ~outputs_dir.some THEN Return(value)
    ELSE IF value.t = "list" THEN
        LET r == [i \in 1 .. Len(value.l) |->
                    replace_output_dir(JStr(value.l[i]), execution_bucket.s,
                                       outputs_dir.s)]
            bad == {i \in 1 .. Len(value.l) : ~r[i].ok}
        IN  IF bad = {}
            THEN Return(JList([i \in 1 .. Len(value.l) |-> r[i].v.s]))
            ELSE Raise(r[CHOOSE i \in bad : \A j \in bad : i <= j].err)
    ELSE replace_output_dir(value, execution_bucket.s, outputs_dir.s)

\* split_bucket_subdir(directory): urlparse's netloc (what follows "//" up
\* to the next "/", when the scheme is followed by "//") and its path
\* without leading "/".  The model's directories have no "?", "#" or ";".
RECURSIVE UpToSlash(_)
UpToSlash(s) ==
    IF s = <<>> \/ Head(s) = "/" THEN <<>> ELSE <<Head(s)>> \o UpToSlash(Tail(s))

split_bucket_subdir(directory) ==
    LET hasScheme == StartsWith(directory, GS)
        rest   == IF hasScheme THEN Drop(directory, Len(GS)) ELSE directory
        netloc == IF hasScheme THEN UpToSlash(rest) ELSE <<>>
        path   == Drop(rest, Len(netloc))
    IN  [bucket |-> netloc, subdir |-> LStrip(path, "/")]


(***************************************************************************)
(* The inputs of a run: the command line and the metadata document.        *)
(***************************************************************************)

\* The longest `samples` list of the metadata
MaxSamples == 2

\* "s1", "s2", ...: the i-th sample id
SampleId(i) == <<"s", <<"1", "2", "3", "4">>[i]>>

\* --execution-bucket: absent, "gs://e", "gs://e/" or "e"
ExecutionBucketArgs ==
    { None, Some(GS \o <<"e">>), Some(GS \o <<"e", "/">>), Some(<<"e">>) }

\* --final-workflow-outputs-dir: absent, "gs://f/" or "f"
OutputsDirArgs == { None, Some(GS \o <<"f", "/">>), Some(<<"f">>) }

\* --file-list-bucket: absent or "gs://b/d"
FileListBucketArgs == { None, Some(GS \o <<"b", "/", "d">>) }

\* "gs://e/a|gs://e/b" (two occurrences of "gs://e") and "gs://o/b"
PathInExec  == GS \o <<"e", "/", "a", "|">> \o GS \o <<"e", "/", "b">>
PathOutside == GS \o <<"o", "/", "b">>

\* A dict from the choice, per candidate key, of a value or of leaving the
\* key out: the dicts d with DOMAIN d a subset of DOMAIN choices and d[k]
\* in choices[k]
DictsOver(choices) ==
    UNION { [ks -> UNION {choices[k] : k \in ks}] : ks \in SUBSET DOMAIN choices }

Dicts(choices) ==
    { d \in DictsOver(choices) : \A k \in DOMAIN d : d[k] \in choices[k] }

\* metadata["outputs"]
OutputChoices ==
    ( <<"GATKSVPipelineBatch", ".", "name">> :>
          { JNull, JStr(PathInExec), JStr(PathOutside), JNum(7) } ) @@
    ( <<"GATKSVPipelineBatch", ".", "PE_files">> :>
          { JList(<<PathInExec, GS \o <<"e">>>>),
            JList(<<PathInExec, PathOutside>>) } ) @@
    ( <<"GATKSVPipelineBatch", ".", "PE_files", "_list">> :>
          { JStr(GS \o <<"e", "/", "l">>) } )

\* metadata["inputs"]
InputChoices ==
    ( <<"name">> :> { JStr(<<"n">>) } ) @@
    ( <<"samples">> :>
          { JList([i \in 1 .. n |-> SampleId(i)]) : n \in 0 .. MaxSamples } ) @@
    ( <<"gcnv_model_tars">> :> { JList(<<GS \o <<"m">>>>) } ) @@
    ( <<"W", ".", "ped_file">> :> { JStr(<<"x", ".", "p">>) } )


(***************************************************************************)
(* State of one run of main()                                              *)
(***************************************************************************)

VARIABLES
    args,             \* argparse's result: execution_bucket,
                      \* final_workflow_outputs_dir, file_list_bucket
    metadata,         \* the metadata file's document: inputs, outputs
    pc,               \* the statement main() is at
    execution_bucket, \* main's local, after validation
    outputs_dir,      \* main's local, after validation
    metadata_read,    \* the metadata file has been opened and parsed
    values,           \* main's dict under construction (the ValueSet)
    stderr,           \* the warnings written: key -> lines naming it
    stdout,           \* the document printed, if any
    error,            \* the exception that ended the run, "" if none
    pending,          \* the file-list loop's keys not yet visited
    list_key,         \* create_file_list's list_key
    recorded,         \* the list keys assigned by the file-list loop
    tmp_files,        \* the temporary files that exist: name -> content
    tmp_made,         \* how many temporary files were created
    blobs,            \* the storage objects: <<bucket, name>> -> content
    rw                \* the rewriter exercised on its own (SpecRewrite)

runVars == << args, metadata, pc, execution_bucket, outputs_dir,
              metadata_read, values, stderr, stdout, error, pending,
              list_key, recorded, tmp_files, tmp_made, blobs >>

vars == << runVars, rw >>

NoDoc == [some |-> FALSE, doc |-> EmptyDict]
NoFiles == [f \in {} |-> <<>>]
NoWarnings == [k \in {} |-> 0]
RwIdle == [step |-> "idle", s |-> <<>>, E |-> <<>>, F |-> <<>>,
           first |-> Raise(""), second |-> Raise("")]

Init ==
    /\ args \in [ execution_bucket : ExecutionBucketArgs,
                  final_workflow_outputs_dir : OutputsDirArgs,
                  file_list_bucket : FileListBucketArgs ]
    /\ metadata \in [ inputs : Dicts(InputChoices),
                      outputs : Dicts(OutputChoices) ]
    /\ pc = "validate"
    /\ execution_bucket = None
    /\ outputs_dir = None
    /\ metadata_read = FALSE
    /\ values = EmptyDict
    /\ stderr = NoWarnings
    /\ stdout = NoDoc
    /\ error = ""
    /\ pending = {}
    /\ list_key = <<>>
    /\ recorded = {}
    /\ tmp_files = NoFiles
    /\ tmp_made = 0
    /\ blobs = NoFiles
    /\ rw = RwIdle

\* An uncaught exception ends the run
RaiseAt(e) == pc' = "raised" /\ error' = e

(***************************************************************************)
(* main(), lines 168-181: the prefixes are read and validated              *)
(***************************************************************************)

\* p[:-1] if p.endswith('/')
StripTrailingSlash(p) ==
    IF EndsWith(p, <<"/">>) THEN SubSeq(p, 1, Len(p) - 1) ELSE p

\* The validation without the check of the outputs dir's scheme marker
ValidationError_OutputsDirUnchecked(eb, od) ==
    IF ~od.some THEN ""
    ELSE IF ~eb.some
        THEN "ValueError: Must supply --execution-bucket"
    ELSE IF ~StartsWith(eb.s, GS)
        THEN "ValueError: --execution-bucket must start with gs://"
    ELSE ""

\* The exception lines 171-177 raise for these arguments, "" if none
ValidationError(eb, od) ==
    IF ~od.some THEN ""
    ELSE IF ~eb.some
        THEN "ValueError: Must supply --execution-bucket"
    ELSE IF ~StartsWith(eb.s, GS)
        THEN "ValueError: --execution-bucket must start with gs://"
    ELSE IF ~StartsWith(od.s, GS)
        THEN "ValueError: --final-workflow-outputs-dir must start with gs://"
    ELSE ""

Validate ==
    /\ pc = "validate"
    /\ LET eb == args.execution_bucket
           od == args.final_workflow_outputs_dir
           e  == ValidationError(eb, od)
       IN  IF e # ""
           THEN /\ RaiseAt(e)
                /\ UNCHANGED << execution_bucket, outputs_dir >>
           ELSE /\ pc' = "extract"
                /\ error' = error
                /\ execution_bucket' =
                       IF od.some THEN Some(StripTrailingSlash(eb.s)) ELSE eb
                /\ outputs_dir' =
                       IF od.some THEN Some(StripTrailingSlash(od.s)) ELSE od
    /\ UNCHANGED << args, metadata, metadata_read, values, stderr, stdout,
                    pending, list_key, recorded, tmp_files, tmp_made, blobs, rw >>

(***************************************************************************)
(* main(), lines 183-187: the metadata is read; values is built from the   *)
(* non-null outputs, each key without the workflow prefix, each value      *)
(* through replace_output_dir_maybe_list                                   *)
(***************************************************************************)

\* key.replace("GATKSVPipelineBatch.", "")
ValueKey(key) == StrReplace(key, WorkflowPrefix, <<>>)

\* The outputs the comprehension keeps
NonNullOutputs(outputs) == {k \in DOMAIN outputs : outputs[k].t # "null"}

ExtractOutputs ==
    /\ pc = "extract"
    /\ metadata_read' = TRUE
    /\ LET outputs == metadata.outputs
           kept == NonNullOutputs(outputs)
           r == [k \in kept |->
                    replace_output_dir_maybe_list(outputs[k], execution_bucket,
                                                  outputs_dir)]
           failing == {k \in kept : ~r[k].ok}
       IN  IF failing # {}
           THEN \* the first failing entry in the document's order raises
                /\ \E k \in failing : RaiseAt(r[k].err)
                /\ values' = values
           ELSE \* of two outputs with one value key, the later one stays
                /\ \E last \in [{ValueKey(k) : k \in kept} -> kept] :
                      /\ \A vk \in DOMAIN last : ValueKey(last[vk]) = vk
                      /\ values' = [vk \in DOMAIN last |-> r[last[vk]].v]
                /\ pc' = "inputs"
                /\ error' = error
    /\ UNCHANGED << args, metadata, execution_bucket, outputs_dir, stderr,
                    stdout, pending, list_key, recorded, tmp_files, tmp_made,
                    blobs, rw >>


(***************************************************************************)
(* main(), lines 188-191: the allow-listed inputs are carried over         *)
(***************************************************************************)

\* set(inputs.keys()).intersection(INPUT_KEYS)
CarriedKeys(inputs) == DOMAIN inputs \cap INPUT_KEYS

\* values after `values[key] = inputs[key]` for each raw_key carried, with
\* key = raw_key.split('.')[-1]
CarryOver(vals, inputs) ==
    LET keys == {LastSegment(raw_key) : raw_key \in CarriedKeys(inputs)}
    IN  [k \in DOMAIN vals \cup keys |->
            IF k \in keys THEN inputs[k] ELSE vals[k]]

CarryInputs ==
    /\ pc = "inputs"
    /\ values' = CarryOver(values, metadata.inputs)
    /\ pc' = "missing"
    /\ UNCHANGED << args, metadata, execution_bucket, outputs_dir,
                    metadata_read, stderr, stdout, error, pending, list_key,
                    recorded, tmp_files, tmp_made, blobs, rw >>

(***************************************************************************)
(* main(), lines 192-195: a warning and a null for each missing input      *)
(***************************************************************************)

\* INPUT_KEYS - set(values.keys())
MissingKeys(vals) == INPUT_KEYS \ DOMAIN vals

\* stderr after one warning line for each missing key.  The lines are kept
\* as a bag, key -> number of lines naming it: the loop runs over a set and
\* the order of its lines is not fixed.
Warn(err, missing) ==
    [k \in DOMAIN err \cup missing |->
        (IF k \in DOMAIN err THEN err[k] ELSE 0) + (IF k \in missing THEN 1 ELSE 0)]

\* The missing keys warned about but not filled in
FillMissing_NotFilled(vals, missing) == vals

\* values after `values[key] = None` for each missing key
FillMissing(vals, missing) ==
    [k \in DOMAIN vals \cup missing |-> IF k \in missing THEN JNull ELSE vals[k]]

\* The keys the file-list loop visits, fixed when the loop starts
FileListLoopKeys(vals) == DOMAIN vals \cap FILE_LIST_KEYS

ReportMissing ==
    /\ pc = "missing"
    /\ LET missing == MissingKeys(values)
       IN  /\ stderr' = Warn(stderr, missing)
           /\ values' = FillMissing(values, missing)
    /\ IF args.file_list_bucket.some
       THEN /\ pc' = "file_lists"
            /\ pending' = FileListLoopKeys(values')
       ELSE /\ pc' = "print"
            /\ pending' = pending
    /\ UNCHANGED << args, metadata, execution_bucket, outputs_dir,
                    metadata_read, stdout, error, list_key, recorded,
                    tmp_files, tmp_made, blobs, rw >>


(***************************************************************************)
(* main(), lines 197-200, and create_file_list, lines 136-155              *)
(***************************************************************************)

\* "\n".join(values_list) raises TypeError unless values_list is an
\* iterable of str: a list of strings, or a str (joined atom by atom)
Joinable(value) == value.t \in {"list", "str"}

JoinLines(value) ==
    IF value.t = "list" THEN StrJoin(NL, value.l)
    ELSE StrJoin(NL, [i \in 1 .. Len(value.s) |-> <<value.s[i]>>])

\* os.path.join(subdir, list_key + list_suffix)
BlobName(lkey, file_list_bucket) ==
    PathJoin(split_bucket_subdir(file_list_bucket).subdir, lkey \o list_suffix)

\* os.path.join("gs://", dest_bucket, gcs_blob_name)
ReturnedPath(lkey, file_list_bucket) ==
    PathJoin(PathJoin(GS, split_bucket_subdir(file_list_bucket).bucket),
             BlobName(lkey, file_list_bucket))

\* The temporary file of the call in progress
fname == tmp_made

\* line 198-199: the loop takes its next key, or ends
NextFileList ==
    /\ pc = "file_lists"
    /\ IF pending = {}
       THEN /\ pc' = "print"
            /\ UNCHANGED << pending, list_key >>
       ELSE \E key \in pending :
              /\ pending' = pending \ {key}
              /\ list_key' = key \o ListKeySuffix
              /\ pc' = "mkstemp"
    /\ UNCHANGED << args, metadata, execution_bucket, outputs_dir,
                    metadata_read, values, stderr, stdout, error, recorded,
                    tmp_files, tmp_made, blobs, rw >>

\* The key whose list the call in progress writes
CurrentKey == SubSeq(list_key, 1, Len(list_key) - Len(ListKeySuffix))

\* lines 139-141: the temporary file is created and the joined list is
\* written to it; a value that cannot be joined raises with the file left
\* empty
WriteTmp ==
    /\ pc = "mkstemp"
    /\ tmp_made' = tmp_made + 1
    /\ LET values_list == values[CurrentKey]
       IN  IF Joinable(values_list)
           THEN /\ tmp_files' = DictSet(tmp_files, tmp_made', JoinLines(values_list))
                /\ pc' = "get_bucket"
                /\ error' = error
           ELSE /\ tmp_files' = DictSet(tmp_files, tmp_made', <<>>)
                /\ RaiseAt(TypeError)
    /\ UNCHANGED << args, metadata, execution_bucket, outputs_dir,
                    metadata_read, values, stderr, stdout, pending, list_key,
                    recorded, blobs, rw >>

\* lines 144-146: the client is made and the bucket looked up; either may
\* fail
GetBucket ==
    /\ pc = "get_bucket"
    /\ \E found \in BOOLEAN :
          IF found /\ split_bucket_subdir(args.file_list_bucket.s).bucket # <<>>
          THEN pc' = "upload" /\ error' = error
          ELSE RaiseAt("StorageError")
    /\ UNCHANGED << args, metadata, execution_bucket, outputs_dir,
                    metadata_read, values, stderr, stdout, pending, list_key,
                    recorded, tmp_files, tmp_made, blobs, rw >>

\* The upload with its failure swallowed: the call goes on to return the
\* path of a blob that was not written
Upload_FailureSwallowed ==
    /\ pc = "upload"
    /\ \E done \in BOOLEAN :
          /\ blobs' = IF done
                      THEN DictSet(blobs,
                             << split_bucket_subdir(args.file_list_bucket.s).bucket,
                                BlobName(list_key, args.file_list_bucket.s) >>,
                             tmp_files[fname])
                      ELSE blobs
          /\ pc' = "unlink"
          /\ error' = error
    /\ UNCHANGED << args, metadata, execution_bucket, outputs_dir,
                    metadata_read, values, stderr, stdout, pending, list_key,
                    recorded, tmp_files, tmp_made, rw >>

\* lines 147-149: the temporary file is uploaded as the blob; the upload
\* may fail
Upload ==
    /\ pc = "upload"
    /\ \E done \in BOOLEAN :
          IF done
          THEN /\ blobs' = DictSet(blobs,
                      << split_bucket_subdir(args.file_list_bucket.s).bucket,
                         BlobName(list_key, args.file_list_bucket.s) >>,
                      tmp_files[fname])
               /\ pc' = "unlink"
               /\ error' = error
          ELSE /\ blobs' = blobs
               /\ RaiseAt("StorageError")
    /\ UNCHANGED << args, metadata, execution_bucket, outputs_dir,
                    metadata_read, values, stderr, stdout, pending, list_key,
                    recorded, tmp_files, tmp_made, rw >>

\* lines 152-155 and 200: the temporary file is deleted, the blob's path is
\* returned and main records it under list_key
ReturnPath ==
    /\ pc = "unlink"
    /\ tmp_files' = [f \in DOMAIN tmp_files \ {fname} |-> tmp_files[f]]
    /\ values' = DictSet(values, list_key,
                         JStr(ReturnedPath(list_key, args.file_list_bucket.s)))
    /\ recorded' = recorded \cup {list_key}
    /\ pc' = "file_lists"
    /\ UNCHANGED << args, metadata, execution_bucket, outputs_dir,
                    metadata_read, stderr, stdout, error, pending, list_key,
                    tmp_made, blobs, rw >>

(***************************************************************************)
(* main(), line 202: the document is printed                               *)
(***************************************************************************)

PrintDocument ==
    /\ pc = "print"
    /\ stdout' = [some |-> TRUE, doc |-> values]
    /\ pc' = "exit"
    /\ UNCHANGED << args, metadata, execution_bucket, outputs_dir,
                    metadata_read, values, stderr, error, pending, list_key,
                    recorded, tmp_files, tmp_made, blobs, rw >>

Next ==
    \/ Validate
    \/ ExtractOutputs
    \/ CarryInputs
    \/ ReportMissing
    \/ NextFileList
    \/ WriteTmp
    \/ GetBucket
    \/ Upload
    \/ ReturnPath
    \/ PrintDocument

Spec == Init /\ [][Next]_vars


(***************************************************************************)
(* replace_output_dir on its own: it is applied to a string s that         *)
(* contains E, and then once more to what it returned.                     *)
(***************************************************************************)

\* The longest tail of a prefix after "gs://", and the most parts of s
MaxTail == 2
MaxParts == 3

\* The sequences over S of length at most n
SeqsUpTo(S, n) == UNION { [1 .. m -> S] : m \in 0 .. n }

\* The atoms of the sequences of parts ps, end to end
RECURSIVE Flatten(_)
Flatten(ps) == IF ps = <<>> THEN <<>> ELSE Head(ps) \o Flatten(Tail(ps))

\* The prefixes main() accepts, as it uses them: "gs://" and a tail,
\* without a trailing "/"
Prefixes ==
    { StripTrailingSlash(GS \o tail) : tail \in SeqsUpTo({"e", "/"}, MaxTail) }

\* The strings made of at most MaxParts parts, each E, F, "gs://", "e" or
\* "/", that contain E
StringsWith(E, F) ==
    { s \in { Flatten(ps) :
                ps \in SeqsUpTo({E, F, GS, <<"e">>, <<"/">>}, MaxParts) } :
        Contains(s, E) }

InitRewrite ==
    /\ args = [ execution_bucket |-> None, final_workflow_outputs_dir |-> None,
                file_list_bucket |-> None ]
    /\ metadata = [ inputs |-> EmptyDict, outputs |-> EmptyDict ]
    /\ pc = "idle"
    /\ execution_bucket = None
    /\ outputs_dir = None
    /\ metadata_read = FALSE
    /\ values = EmptyDict
    /\ stderr = NoWarnings
    /\ stdout = NoDoc
    /\ error = ""
    /\ pending = {}
    /\ list_key = <<>>
    /\ recorded = {}
    /\ tmp_files = NoFiles
    /\ tmp_made = 0
    /\ blobs = NoFiles
    /\ \E E \in Prefixes, F \in Prefixes :
          /\ E # F
          /\ \E s \in StringsWith(E, F) :
                rw = [RwIdle EXCEPT !.step = "start", !.s = s, !.E = E, !.F = F]

RewriteOnce ==
    /\ rw.step = "start"
    /\ rw' = [rw EXCEPT !.step = "once",
                        !.first = replace_output_dir(JStr(rw.s), rw.E, rw.F)]
    /\ UNCHANGED runVars

RewriteAgain ==
    /\ rw.step = "once"
    /\ rw.first.ok
    /\ rw' = [rw EXCEPT !.step = "twice",
                        !.second = replace_output_dir(rw.first.v, rw.E, rw.F)]
    /\ UNCHANGED runVars

NextRewrite == RewriteOnce \/ RewriteAgain

SpecRewrite == InitRewrite /\ [][NextRewrite]_vars


(***************************************************************************)
(* Vocabulary of the properties                                            *)
(***************************************************************************)

ConfigurationErrors ==
    { "ValueError: Must supply --execution-bucket",
      "ValueError: --execution-bucket must start with gs://",
      "ValueError: --final-workflow-outputs-dir must start with gs://" }

\* The run ended with a configuration error before it read the metadata,
\* built any value, uploaded anything or printed a document
FailedEagerly ==
    /\ pc = "raised"
    /\ error \in ConfigurationErrors
    /\ ~metadata_read
    /\ values = EmptyDict
    /\ blobs = NoFiles
    /\ tmp_made = 0
    /\ ~stdout.some

\* Both prefixes are configured and were accepted
BothPrefixes == pc # "validate" /\ execution_bucket.some /\ outputs_dir.some

\* The outputs whose key without the workflow prefix is k
OutputsFor(k) == {raw \in NonNullOutputs(metadata.outputs) : ValueKey(raw) = k}

\* The inputs whose last dot-segment is k
InputsFor(k) == {raw \in DOMAIN metadata.inputs : LastSegment(raw) = k}

\* Every occurrence of E in s replaced by F, read from left to right
RECURSIVE Rewritten(_, _, _)
Rewritten(s, E, F) ==
    IF Len(s) < Len(E) THEN s
    ELSE IF SubSeq(s, 1, Len(E)) = E
        THEN F \o Rewritten(SubSeq(s, Len(E) + 1, Len(s)), E, F)
    ELSE <<s[1]>> \o Rewritten(SubSeq(s, 2, Len(s)), E, F)

(***************************************************************************)
(* C8                                                                      *)
(***************************************************************************)

\* C8 as stated: if exactly one of the two prefixes is supplied, or a
\* supplied prefix does not begin with "gs://", the run fails with a
\* configuration error before the metadata is read or anything is
\* transformed or uploaded, and prints no document.
C8_AsStated ==
    LET eb == args.execution_bucket
        od == args.final_workflow_outputs_dir
    IN  ( /\ pc # "validate"
          /\ \/ eb.some # od.some
             \/ eb.some /\ ~StartsWith(eb.s, GS)
             \/ od.some /\ ~StartsWith(od.s, GS) )
        => FailedEagerly

\* C8, amended: if the outputs-dir prefix is supplied and the
\* execution-bucket prefix is not, or the outputs-dir prefix is supplied
\* and either prefix does not begin with "gs://", the run fails with a
\* configuration error before the metadata is read or anything is
\* transformed or uploaded, and prints no document.  Without an outputs-dir
\* prefix no configuration error is raised, whatever the execution-bucket
\* prefix is.
C8_Amended ==
    LET eb == args.execution_bucket
        od == args.final_workflow_outputs_dir
    IN  pc # "validate" =>
          IF od.some /\ (~eb.some \/ ~StartsWith(eb.s, GS) \/ ~StartsWith(od.s, GS))
          THEN FailedEagerly
          ELSE error \notin ConfigurationErrors

\* C8's case: an outputs-dir prefix without scheme marker was refused
C8_Witness ==
    /\ FailedEagerly
    /\ args.execution_bucket.some
    /\ StartsWith(args.execution_bucket.s, GS)
    /\ args.final_workflow_outputs_dir.some
    /\ ~StartsWith(args.final_workflow_outputs_dir.s, GS)


(***************************************************************************)
(* C1                                                                      *)
(***************************************************************************)

\* The printed document's string under key vk, and the i-th element of its
\* list under vk; <<"?">> where the document has no such string
DocString(vk) ==
    IF stdout.some /\ vk \in DOMAIN stdout.doc /\ stdout.doc[vk].t = "str"
    THEN stdout.doc[vk].s ELSE <<"?">>

DocElement(vk, i) ==
    IF /\ stdout.some /\ vk \in DOMAIN stdout.doc
       /\ stdout.doc[vk].t = "list" /\ i <= Len(stdout.doc[vk].l)
    THEN stdout.doc[vk].l[i] ELSE <<"?">>

\* What the claim expects of one output string s under both prefixes, got
\* being what the document holds in its place: with E in s, a printed
\* document holds s rewritten; without E, the run has failed in the
\* rewriter and printed nothing.
C1_Holds(s, got) ==
    IF Contains(s, execution_bucket.s)
    THEN stdout.some => got = Rewritten(s, execution_bucket.s, outputs_dir.s)
    ELSE pc \notin {"validate", "extract"} =>
            /\ pc = "raised"
            /\ error \in {MismatchError, TypeError}
            /\ ~stdout.some

\* C1: with both prefixes configured, every non-null output that is a
\* string, and every element of an output that is a list of strings, is in
\* the printed document with each occurrence of the execution-bucket prefix
\* replaced by the outputs-dir prefix if it contains that prefix, and
\* otherwise the run fails with the mismatch error and prints no document.
\* (The failure is accepted here also when another output's TypeError came
\* first.)
C1_AsStated ==
    BothPrefixes =>
      \A k \in NonNullOutputs(metadata.outputs) :
        LET v == metadata.outputs[k]
        IN  /\ v.t = "str" => C1_Holds(v.s, DocString(ValueKey(k)))
            /\ v.t = "list" =>
                 \A i \in 1 .. Len(v.l) :
                   C1_Holds(v.l[i], DocElement(ValueKey(k), i))

(***************************************************************************)
(* C2                                                                      *)
(***************************************************************************)

\* C2: for every allow-listed identifier k that a non-null output provides
\* and for which inputs has an entry too, the printed document maps k to
\* the value derived from the output.
C2_AsStated ==
    stdout.some =>
      \A k \in INPUT_KEYS :
        (OutputsFor(k) # {} /\ InputsFor(k) # {}) =>
          \E raw \in OutputsFor(k) :
            LET r == replace_output_dir_maybe_list(metadata.outputs[raw],
                                                   execution_bucket, outputs_dir)
            IN  r.ok /\ stdout.doc[k] = r.v

(***************************************************************************)
(* C3                                                                      *)
(***************************************************************************)

\* C3: for every input whose key's last dot-segment is an allow-listed
\* identifier k that no output provides, the printed document maps the bare
\* k to that input's value, and no warning names k.
C3_AsStated ==
    stdout.some =>
      \A raw \in DOMAIN metadata.inputs :
        LET k == LastSegment(raw)
        IN  (k \in INPUT_KEYS /\ OutputsFor(k) = {}) =>
              /\ k \in DOMAIN stdout.doc
              /\ stdout.doc[k] = metadata.inputs[raw]
              /\ k \notin DOMAIN stderr

(***************************************************************************)
(* C4                                                                      *)
(***************************************************************************)

\* k was populated by extraction: by a non-null output or by a carried
\* input
Populated(k) == OutputsFor(k) # {} \/ k \in CarriedKeys(metadata.inputs)

\* k is in neither inputs nor outputs
AbsentFromBoth(k) ==
    /\ InputsFor(k) = {}
    /\ \A raw \in DOMAIN metadata.outputs : ValueKey(raw) # k

\* C4: once the document is about to be printed, and in the printed
\* document, every allow-listed input identifier is a key; each one absent
\* from both inputs and outputs is null and exactly one warning names it;
\* no warning names an identifier populated by extraction, nor anything
\* that is no allow-listed identifier.
C4_RequiredKeysPresent ==
    LET doc == IF stdout.some THEN stdout.doc ELSE values
    IN  (pc = "print" \/ stdout.some) =>
          /\ INPUT_KEYS \subseteq DOMAIN doc
          /\ DOMAIN stderr \subseteq INPUT_KEYS
          /\ \A k \in INPUT_KEYS :
               /\ AbsentFromBoth(k) =>
                    doc[k] = JNull /\ k \in DOMAIN stderr /\ stderr[k] = 1
               /\ Populated(k) => k \notin DOMAIN stderr

\* C4's case: a document was printed with one allow-listed identifier
\* missing everywhere and another populated from the inputs
C4_Witness ==
    /\ stdout.some
    /\ AbsentFromBoth(<<"qc_definitions">>)
    /\ <<"qc_definitions">> \in DOMAIN stderr
    /\ <<"name">> \in DOMAIN metadata.inputs
    /\ OutputsFor(<<"name">>) = {}
    /\ stdout.doc[<<"name">>] = metadata.inputs[<<"name">>]

(***************************************************************************)
(* C5                                                                      *)
(***************************************************************************)

\* C5: missing required keys never abort the run: once the prefixes were
\* accepted and the outputs rewritten without a mismatch, only a storage
\* failure ends the run with an error, also when a file-list target is
\* configured and a list-valued key holds the null placeholder.
C5_AsStated ==
    (pc = "raised" /\ INPUT_KEYS \subseteq DOMAIN values) => error = "StorageError"

(***************************************************************************)
(* C6                                                                      *)
(***************************************************************************)

\* The one file-list target of the model, "gs://b/d": its bucket and the
\* directory of its blobs
TargetBucket == <<"b">>
TargetDir == <<"d", "/">>

\* The blob "<key>_list.txt" at the target exists, its content is the lines
\* of values[key], and values["<key>_list"] is its URI
Materialized(key) ==
    LET name == TargetDir \o key \o <<"_list">> \o <<".txt">>
        blob == << TargetBucket, name >>
    IN  /\ blob \in DOMAIN blobs
        /\ blobs[blob] = StrJoin(NL, values[key].l)
        /\ values[key \o <<"_list">>] =
               JStr(GS \o TargetBucket \o <<"/">> \o name)

\* In a printed document every list-valued file-list key has its companion
CompanionsComplete ==
    stdout.some =>
      \A key \in FILE_LIST_KEYS :
        (key \in DOMAIN stdout.doc /\ stdout.doc[key].t = "list") =>
          key \o <<"_list">> \in DOMAIN stdout.doc

\* C6 as stated: with a file-list target configured, at every point of the
\* run, if values holds the companion key "<key>_list" of a file-list key
\* whose value is a list of strings, the blob "<key>_list.txt" exists at the
\* target with the newline-joined list as content and the companion's value
\* is that blob's URI; and a printed document holds the companion of every
\* list-valued file-list key.
C6_AsStated ==
    args.file_list_bucket.some =>
      /\ \A key \in FILE_LIST_KEYS :
           ( /\ key \in DOMAIN values
             /\ values[key].t = "list"
             /\ key \o <<"_list">> \in DOMAIN values ) => Materialized(key)
      /\ CompanionsComplete

\* C6, amended: the same of every companion key that the File-List
\* Materializer has recorded (a key "<key>_list" that came from the outputs
\* is in values before any blob is written); the companion of the key being
\* uploaded is not recorded before its upload is done, nor after its upload
\* or bucket lookup failed.
C6_Amended ==
    args.file_list_bucket.some =>
      /\ \A key \in FILE_LIST_KEYS :
           ( /\ key \in DOMAIN values
             /\ values[key].t = "list"
             /\ key \o <<"_list">> \in recorded ) => Materialized(key)
      /\ \A lk \in recorded :
           /\ lk \in DOMAIN values
           /\ \E key \in FILE_LIST_KEYS : lk = key \o <<"_list">>
      /\ pc \in {"mkstemp", "get_bucket", "upload"} => list_key \notin recorded
      /\ (pc = "raised" /\ error = "StorageError") => list_key \notin recorded
      /\ CompanionsComplete

\* C6's case: the run ended well with the list of PE_files uploaded and its
\* companion recorded, after the same companion key came from the outputs
C6_Witness ==
    /\ pc = "exit"
    /\ <<"PE_files", "_list">> \in recorded
    /\ <<"samples", "_list">> \in recorded
    /\ Len(values[<<"samples">>].l) >= 2
    /\ OutputsFor(<<"PE_files", "_list">>) # {}

(***************************************************************************)
(* C7                                                                      *)
(***************************************************************************)

\* C7: with both prefixes configured, a non-null output that is neither a
\* string nor a list of strings does not make the run fail, and a printed
\* document maps its key without the workflow prefix to the same value.
C7_AsStated ==
    BothPrefixes =>
      \A k \in NonNullOutputs(metadata.outputs) :
        metadata.outputs[k].t \notin {"str", "list"} =>
          /\ ~(pc = "raised" /\ error = TypeError /\ values = EmptyDict)
          /\ stdout.some =>
                /\ ValueKey(k) \in DOMAIN stdout.doc
                /\ stdout.doc[ValueKey(k)] = metadata.outputs[k]

(***************************************************************************)
(* C10                                                                     *)
(***************************************************************************)

\* create_file_list is running: between mkstemp and its return
InCreateFileList == pc \in {"get_bucket", "upload", "unlink"}

\* C10: whenever create_file_list has finished, by returning or by raising,
\* no temporary file that it created exists.
C10_AsStated == ~InCreateFileList => DOMAIN tmp_files = {}


(***************************************************************************)
(* C9, under SpecRewrite                                                   *)
(***************************************************************************)

\* C9 as stated: for every string s that contains E and every pair of
\* distinct valid prefixes E, F, replace_output_dir applied to
\* replace_output_dir(s, E, F) raises the mismatch error.
C9_AsStated ==
    rw.step = "twice" => ~rw.second.ok /\ rw.second.err = MismatchError

\* C9, amended: replace_output_dir applied to replace_output_dir(s, E, F)
\* raises the mismatch error exactly when E no longer occurs in the
\* rewritten string; it returns a value instead whenever E still occurs
\* there, as it does when E occurs in F.
C9_Amended ==
    rw.step = "twice" =>
      /\ rw.first.v.s = Rewritten(rw.s, rw.E, rw.F)
      /\ rw.second.ok <=> Contains(rw.first.v.s, rw.E)
      /\ ~rw.second.ok => rw.second.err = MismatchError
      /\ Contains(rw.F, rw.E) => rw.second.ok

\* C9's case: a string with E was rewritten, E is gone from it, and the
\* second application raised
C9_Witness ==
    /\ rw.step = "twice"
    /\ Contains(rw.s, rw.E)
    /\ rw.first.ok
    /\ ~Contains(rw.first.v.s, rw.E)
    /\ ~rw.second.ok

====
